---- MODULE Spec2Model ----
(***************************************************************************)
(* The two documentation notebooks of the repository,                      *)
(*   docs/examples/dynamics/controlled-oscillator.ipynb                    *)
(*   docs/examples/basic/2d-representation.ipynb                           *)
(* executed top to bottom, one statement at a time.  A statement either    *)
(* binds a name, adds an object to the network, builds the simulator,      *)
(* advances the simulation by one timestep, or draws into the figure.      *)
(* Real numbers are exact rationals <<numerator, denominator>>.            *)
(***************************************************************************)
EXTENDS Integers, Sequences, FiniteSets, TLC

VARIABLES nb, pc, bound, raised, objs, conns, probes, sim, decoded, out, data, figure

vars == <<nb, pc, bound, raised, objs, conns, probes, sim, decoded, out, data, figure>>

(* ------------------------------ bounds --------------------------------- *)

\* Timesteps per simulated second (the simulator's dt is 1/StepsPerSecond).
StepsPerSecond == 20

\* Evaluation points of a connection function have coordinates in
\* -MaxPoint .. MaxPoint.
MaxPoint == 2

(* ---------------------------- rationals -------------------------------- *)

RInt(k) == <<k, 1>>
RAdd(a, b) == <<a[1] * b[2] + b[1] * a[2], a[2] * b[2]>>
RNeg(a) == <<0 - a[1], a[2]>>
RSub(a, b) == RAdd(a, RNeg(b))
RMul(a, b) == <<a[1] * b[1], a[2] * b[2]>>
REq(a, b) == a[1] * b[2] = b[1] * a[2]
RLeq(a, b) == a[1] * b[2] <= b[1] * a[2]
RLt(a, b) == a[1] * b[2] < b[1] * a[2]
VecEq(u, v) == /\ Len(u) = Len(v)
               /\ \A i \in 1..Len(u) : REq(u[i], v[i])
Zeros(n) == [i \in 1..n |-> RInt(0)]

(* ------------------- controlled-oscillator.ipynb ----------------------- *)

\* tau = 0.1
tau == <<1, 10>>

\* w_max = 10
w_max == 10

\* The feedback function as the notebook's first (markdown) cell derives it,
\* with the scaling factor omega_max.
f_feedback(x) ==
    LET x0 == x[1]
        x1 == x[2]
        w  == x[3]
    IN  << RSub(x0, RMul(RMul(RMul(tau, w), RInt(w_max)), x1)),
           RAdd(x1, RMul(RMul(RMul(tau, w), RInt(w_max)), x0)),
           RInt(0) >>

\* A feedback that passes the frequency variable through instead of a zero.
feedback_keeps_w(x) ==
    LET x0 == x[1]
        x1 == x[2]
        w  == x[3]
    IN  << RAdd(x0, RMul(RMul(RMul(w, RInt(w_max)), tau), x1)),
           RSub(x1, RMul(RMul(RMul(w, RInt(w_max)), tau), x0)),
           w >>

\* A feedback that forgets the trailing zero.
feedback_no_zero(x) ==
    LET x0 == x[1]
        x1 == x[2]
        w  == x[3]
    IN  << RAdd(x0, RMul(RMul(RMul(w, RInt(w_max)), tau), x1)),
           RSub(x1, RMul(RMul(RMul(w, RInt(w_max)), tau), x0)) >>

\* def feedback(x), as the code cell defines it.
feedback(x) ==
    LET x0 == x[1]
        x1 == x[2]
        w  == x[3]
    IN  << RAdd(x0, RMul(RMul(RMul(w, RInt(w_max)), tau), x1)),
           RSub(x1, RMul(RMul(RMul(w, RInt(w_max)), tau), x0)),
           RInt(0) >>

\* Piecewise({0: [1, 0, 0], 0.15: [0, 0, 0]}), sorted by key.
initial_data_stays_on ==
    << [t |-> <<0, 1>>,    y |-> << RInt(1), RInt(0), RInt(0) >>],
       [t |-> <<15, 100>>, y |-> << RInt(1), RInt(0), RInt(0) >>] >>

initial_data ==
    << [t |-> <<0, 1>>,    y |-> << RInt(1), RInt(0), RInt(0) >>],
       [t |-> <<15, 100>>, y |-> << RInt(0), RInt(0), RInt(0) >>] >>

\* Piecewise({0: 1, 1: 0.5, 2: 0, 3: -0.5, 4: -1}), sorted by key.
input_frequency_data_swapped ==
    << [t |-> <<0, 1>>, y |-> << <<1, 1>> >>],
       [t |-> <<1, 1>>, y |-> << <<0, 1>> >>],
       [t |-> <<2, 1>>, y |-> << <<1, 2>> >>],
       [t |-> <<3, 1>>, y |-> << <<-1, 2>> >>],
       [t |-> <<4, 1>>, y |-> << <<-1, 1>> >>] >>

input_frequency_data ==
    << [t |-> <<0, 1>>, y |-> << <<1, 1>> >>],
       [t |-> <<1, 1>>, y |-> << <<1, 2>> >>],
       [t |-> <<2, 1>>, y |-> << <<0, 1>> >>],
       [t |-> <<3, 1>>, y |-> << <<-1, 2>> >>],
       [t |-> <<4, 1>>, y |-> << <<-1, 1>> >>] >>

(* --------------------------- statements -------------------------------- *)

\* A statement of a code cell: the cell it is in, what it does, the name it
\* binds ("" when none) and the names it reads; the other fields are the
\* arguments of the call it makes.
St(cell, op, name, reads) ==
    [cell |-> cell, op |-> op, name |-> name, reads |-> reads,
     body |-> {},      \* def: the free names the function body reads when called
     dims |-> 0,       \* Ensemble: dimensions
     output |-> "",    \* Node: "Piecewise" or the callable
     table |-> <<>>,   \* Node: the Piecewise data
     pre |-> "", post |-> "", slice |-> <<>>, function |-> "",   \* Connection
     target |-> "",    \* Probe
     seconds |-> 0,    \* run
     keys |-> {},      \* plot: the probes whose sim.data it reads
     labels |-> 0]     \* legend: the number of entries

Osc_Cell1 ==
    << St(1, "import", "plt", {}),
       St(1, "import", "nengo", {}),
       St(1, "import", "Piecewise", {}) >>

Osc_Cell2 ==
    << St(2, "assign", "tau", {}),
       St(2, "assign", "w_max", {}),
       St(2, "Network", "model", {"nengo"}),
       [St(2, "Ensemble", "oscillator", {"model", "nengo"}) EXCEPT !.dims = 3],
       [St(2, "def", "feedback", {"model"}) EXCEPT !.body = {"w_max", "tau"}],
       [St(2, "Connection", "", {"model", "nengo", "oscillator", "feedback", "tau"})
           EXCEPT !.pre = "oscillator", !.post = "oscillator",
                  !.function = "feedback"],
       [St(2, "Ensemble", "frequency", {"model", "nengo"}) EXCEPT !.dims = 1],
       [St(2, "Connection", "", {"model", "nengo", "frequency", "oscillator"})
           EXCEPT !.pre = "frequency", !.post = "oscillator", !.slice = <<2>>] >>

Osc_Cell3 ==
    << [St(3, "Node", "initial", {"model", "nengo", "Piecewise"})
           EXCEPT !.output = "Piecewise", !.table = initial_data],
       [St(3, "Connection", "", {"model", "nengo", "initial", "oscillator"})
           EXCEPT !.pre = "initial", !.post = "oscillator"],
       [St(3, "Node", "input_frequency", {"model", "nengo", "Piecewise"})
           EXCEPT !.output = "Piecewise", !.table = input_frequency_data],
       [St(3, "Connection", "", {"model", "nengo", "input_frequency", "frequency"})
           EXCEPT !.pre = "input_frequency", !.post = "frequency"] >>

\* The probe cell recording the frequency ensemble instead.
Osc_Cell4_probes_frequency ==
    << [St(4, "Probe", "oscillator_probe", {"model", "nengo", "frequency"})
           EXCEPT !.target = "frequency"] >>

Osc_Cell4 ==
    << [St(4, "Probe", "oscillator_probe", {"model", "nengo", "oscillator"})
           EXCEPT !.target = "oscillator"] >>

Osc_Cell5 ==
    << St(5, "Simulator", "sim", {"nengo", "model"}),
       [St(5, "run", "", {"sim"}) EXCEPT !.seconds = 5] >>

Osc_Cell6 ==
    << St(6, "plot", "", {"plt"}),
       [St(6, "plot", "", {"plt", "sim", "oscillator_probe"})
           EXCEPT !.keys = {"oscillator_probe"}],
       St(6, "plot", "", {"plt"}),
       [St(6, "plot", "", {"plt"}) EXCEPT !.labels = 3] >>

\* The cells in another order: the simulator is built and run before Step 3.
controlled_oscillator_probe_late ==
    Osc_Cell1 \o Osc_Cell2 \o Osc_Cell3 \o Osc_Cell5 \o Osc_Cell4 \o Osc_Cell6

\* The cells in another order: Step 2 before Step 1.
controlled_oscillator_input_first ==
    Osc_Cell1 \o Osc_Cell3 \o Osc_Cell2 \o Osc_Cell4 \o Osc_Cell5 \o Osc_Cell6

\* The code cells of the notebook in file order.
controlled_oscillator ==
    Osc_Cell1 \o Osc_Cell2 \o Osc_Cell3 \o Osc_Cell4 \o Osc_Cell5 \o Osc_Cell6

(* ---------------------- 2d-representation.ipynb ------------------------ *)

Rep_Cell1 ==
    << St(1, "import", "plt", {}),
       St(1, "import", "np", {}),
       St(1, "import", "nengo", {}),
       St(1, "Network", "model", {"nengo"}),
       [St(1, "Ensemble", "neurons", {"model", "nengo"}) EXCEPT !.dims = 2] >>

Rep_Cell2 ==
    << [St(2, "Node", "sin", {"model", "nengo", "np"}) EXCEPT !.output = "np.sin"],
       [St(2, "Node", "cos", {"model", "nengo", "np"}) EXCEPT !.output = "np.cos"] >>

Rep_Cell3 ==
    << [St(3, "Connection", "", {"model", "nengo", "sin", "neurons"})
           EXCEPT !.pre = "sin", !.post = "neurons", !.slice = <<0>>],
       [St(3, "Connection", "", {"model", "nengo", "cos", "neurons"})
           EXCEPT !.pre = "cos", !.post = "neurons", !.slice = <<1>>] >>

Rep_Cell4 ==
    << [St(4, "Probe", "sin_probe", {"model", "nengo", "sin"})
           EXCEPT !.target = "sin"],
       [St(4, "Probe", "cos_probe", {"model", "nengo", "cos"})
           EXCEPT !.target = "cos"],
       [St(4, "Probe", "neurons_probe", {"model", "nengo", "neurons"})
           EXCEPT !.target = "neurons"] >>

Rep_Cell5 ==
    << St(5, "Simulator", "sim", {"nengo", "model"}),
       [St(5, "run", "", {"sim"}) EXCEPT !.seconds = 5] >>

Rep_Cell6 ==
    << St(6, "plot", "", {"plt"}),
       [St(6, "plot", "", {"plt", "sim", "neurons_probe"})
           EXCEPT !.keys = {"neurons_probe"}],
       [St(6, "plot", "", {"plt", "sim", "sin_probe"})
           EXCEPT !.keys = {"sin_probe"}],
       [St(6, "plot", "", {"plt", "sim", "cos_probe"})
           EXCEPT !.keys = {"cos_probe"}],
       St(6, "plot", "", {"plt"}),
       St(6, "plot", "", {"plt"}) >>

\* The code cells of the notebook in file order.
representation_2d ==
    Rep_Cell1 \o Rep_Cell2 \o Rep_Cell3 \o Rep_Cell4 \o Rep_Cell5 \o Rep_Cell6

Notebooks == {"controlled-oscillator", "2d-representation"}

Cells(n) == IF n = "controlled-oscillator" THEN controlled_oscillator
            ELSE representation_2d

(* ----------------- the simulation library's objects -------------------- *)

\* Time of timestep n, in seconds.
T(n) == <<n, StepsPerSecond>>

\* The breakpoints of a Piecewise table at or before time t.
KeysUpTo(table, t) == {i \in 1..Len(table) : RLeq(table[i].t, t)}

\* A Piecewise process holds the value of the latest breakpoint at or before
\* t, and is zero before the first breakpoint.
Piecewise(table, t) ==
    LET ks == KeysUpTo(table, t)
    IN  IF ks = {} THEN Zeros(Len(table[1].y))
        ELSE table[CHOOSE i \in ks : \A j \in ks : RLeq(table[j].t, table[i].t)].y

\* The size of a node's output: the length of a Piecewise value, one for a
\* scalar function of time.
NodeSize(s) == IF s.output = "Piecewise" THEN Len(s.table[1].y) ELSE 1

\* The function of a connection applied to a point.
Apply(function, x) == IF function = "feedback" THEN feedback(x) ELSE x

\* The free names the body of function fn reads when it is called.
BodyReads(fn) ==
    UNION {Cells(nb)[i].body :
             i \in {j \in 1..Len(Cells(nb)) :
                      Cells(nb)[j].op = "def" /\ Cells(nb)[j].name = fn}}

\* The evaluation points of an n-dimensional ensemble.
Points(n) == [1..n -> (0 - MaxPoint)..MaxPoint]

ToRat(x) == [i \in 1..Len(x) |-> RInt(x[i])]

NoObjects == [n \in {} |-> 0]

NoSim == [built |-> FALSE, n |-> 0, ran |-> FALSE,
          objs |-> NoObjects, conns |-> {}, probes |-> NoObjects]

(* ------------------------------ state ---------------------------------- *)

Init ==
    /\ nb \in Notebooks
    /\ pc = 1
    /\ bound = {}
    /\ raised = "none"
    /\ objs = NoObjects
    /\ conns = {}
    /\ probes = NoObjects
    /\ sim = NoSim
    /\ decoded = {}
    /\ out = NoObjects
    /\ data = NoObjects
    /\ figure = [series |-> {}, legend |-> 0]

cur == Cells(nb)[pc]

\* The kernel runs the next statement while nothing has raised.
At(op) == /\ raised = "none"
          /\ pc \in 1..Len(Cells(nb))
          /\ cur.op = op

\* Every name the statement reads is bound.
NamesBound == cur.reads \subseteq bound

Raise(e) ==
    /\ raised' = e
    /\ UNCHANGED <<nb, pc, bound, objs, conns, probes, sim, decoded, out, data, figure>>

\* The statement is done: its name is bound and the next statement follows.
Advance ==
    /\ pc' = pc + 1
    /\ bound' = IF cur.name = "" THEN bound ELSE bound \cup {cur.name}
    /\ UNCHANGED <<nb, raised>>

(* ----------------------------- actions --------------------------------- *)

\* import ... / from ... import ...
Import ==
    /\ At("import")
    /\ Advance
    /\ UNCHANGED <<objs, conns, probes, sim, decoded, out, data, figure>>

\* name = literal
Assign ==
    /\ At("assign")
    /\ IF NamesBound
       THEN /\ Advance
            /\ UNCHANGED <<objs, conns, probes, sim, decoded, out, data, figure>>
       ELSE Raise("NameError")

\* def name(x): ...
Def ==
    /\ At("def")
    /\ IF NamesBound
       THEN /\ Advance
            /\ UNCHANGED <<objs, conns, probes, sim, decoded, out, data, figure>>
       ELSE Raise("NameError")

\* model = nengo.Network(...)
Network ==
    /\ At("Network")
    /\ IF NamesBound
       THEN /\ Advance
            /\ objs' = NoObjects
            /\ conns' = {}
            /\ probes' = NoObjects
            /\ UNCHANGED <<sim, decoded, out, data, figure>>
       ELSE Raise("NameError")

\* name = nengo.Ensemble(n_neurons, dimensions=d)
Ensemble ==
    /\ At("Ensemble")
    /\ IF NamesBound
       THEN /\ Advance
            /\ objs' = objs @@ (cur.name :>
                         [kind |-> "Ensemble", size |-> cur.dims,
                          output |-> "", table |-> <<>>])
            /\ UNCHANGED <<conns, probes, sim, decoded, out, data, figure>>
       ELSE Raise("NameError")

\* name = nengo.Node(output)
Node ==
    /\ At("Node")
    /\ IF NamesBound
       THEN /\ Advance
            /\ objs' = objs @@ (cur.name :>
                         [kind |-> "Node", size |-> NodeSize(cur),
                          output |-> cur.output, table |-> cur.table])
            /\ UNCHANGED <<conns, probes, sim, decoded, out, data, figure>>
       ELSE Raise("NameError")

\* The size a connection delivers: that of its function's result (found by
\* calling it once on zeros), or that of its source.
SizeMid(s) ==
    IF s.function = "" THEN objs[s.pre].size
    ELSE Len(Apply(s.function, Zeros(objs[s.pre].size)))

\* The indices of a slice are dimensions of the object sliced.
SliceOk(s) == \A k \in 1..Len(s.slice) : s.slice[k] \in 0..(objs[s.post].size - 1)

\* The size of the connection's target.
SizePost(s) == IF s.slice = <<>> THEN objs[s.post].size ELSE Len(s.slice)

\* nengo.Connection(pre, post[slice], function=f)
Connection ==
    /\ At("Connection")
    /\ IF ~(cur.reads \cup BodyReads(cur.function) \subseteq bound)
       THEN Raise("NameError")
       ELSE IF ~SliceOk(cur) \/ SizeMid(cur) # SizePost(cur)
       THEN Raise("ValidationError")
       ELSE /\ Advance
            /\ conns' = conns \cup
                 {[pre |-> cur.pre, post |-> cur.post, slice |-> cur.slice,
                   function |-> cur.function,
                   size_mid |-> SizeMid(cur), size_post |-> SizePost(cur)]}
            /\ UNCHANGED <<objs, probes, sim, decoded, out, data, figure>>

\* name = nengo.Probe(target)
Probe ==
    /\ At("Probe")
    /\ IF NamesBound
       THEN /\ Advance
            /\ probes' = probes @@ (cur.name :> cur.target)
            /\ UNCHANGED <<objs, conns, sim, decoded, out, data, figure>>
       ELSE Raise("NameError")

MaxSize == IF DOMAIN objs = {} THEN 0
           ELSE CHOOSE m \in {objs[o].size : o \in DOMAIN objs} :
                  \A o \in DOMAIN objs : objs[o].size <= m

\* with nengo.Simulator(model) as sim: the model as it is now is built; the
\* function of each connection is evaluated at an evaluation point of its
\* source.
Simulator ==
    /\ At("Simulator")
    /\ IF ~(cur.reads \cup UNION {BodyReads(c.function) : c \in conns} \subseteq bound)
       THEN Raise("NameError")
       ELSE /\ Advance
            /\ sim' = [built |-> TRUE, n |-> 0, ran |-> FALSE,
                       objs |-> objs, conns |-> conns, probes |-> probes]
            /\ \E x \in Points(MaxSize) :
                 decoded' =
                   {[function |-> c.function,
                     in |-> SubSeq(x, 1, objs[c.pre].size),
                     out |-> Apply(c.function, ToRat(SubSeq(x, 1, objs[c.pre].size)))] :
                      c \in {d \in conns : d.function # ""}}
            /\ data' = [p \in DOMAIN probes |-> <<>>]
            /\ out' = NoObjects
            /\ UNCHANGED <<objs, conns, probes, figure>>

Steps == cur.seconds * StepsPerSecond

PiecewiseNodes == {o \in DOMAIN sim.objs : sim.objs[o].output = "Piecewise"}

\* One timestep of sim.run: the Piecewise nodes output their value at the
\* new time and every probe records one row, as wide as its target.
RunStep ==
    /\ At("run")
    /\ NamesBound
    /\ sim.n < Steps
    /\ sim' = [sim EXCEPT !.n = sim.n + 1]
    /\ out' = [o \in PiecewiseNodes |-> Piecewise(sim.objs[o].table, T(sim.n + 1))]
    /\ data' = [p \in DOMAIN data |-> Append(data[p], sim.objs[sim.probes[p]].size)]
    /\ UNCHANGED <<nb, pc, bound, raised, objs, conns, probes, decoded, figure>>

\* sim.run(seconds) returns (or cannot start).
RunEnd ==
    /\ At("run")
    /\ IF ~NamesBound THEN Raise("NameError")
       ELSE /\ sim.n = Steps
            /\ Advance
            /\ sim' = [sim EXCEPT !.ran = TRUE]
            /\ UNCHANGED <<objs, conns, probes, decoded, out, data, figure>>

\* sim.trange(): the times of the timesteps run.
trange == [i \in 1..sim.n |-> T(i)]

\* plt.figure / plt.plot(sim.trange(), sim.data[probe]) / plt.xlabel /
\* plt.legend
Plot ==
    /\ At("plot")
    /\ IF ~NamesBound THEN Raise("NameError")
       ELSE IF ~(cur.keys \subseteq DOMAIN data) THEN Raise("KeyError")
       ELSE IF \E p \in cur.keys : Len(data[p]) # Len(trange) THEN Raise("ValueError")
       ELSE /\ Advance
            /\ figure' = [series |-> figure.series \cup cur.keys,
                          legend |-> figure.legend + cur.labels]
            /\ UNCHANGED <<objs, conns, probes, sim, decoded, out, data>>

Next ==
    \/ Import
    \/ Assign
    \/ Def
    \/ Network
    \/ Ensemble
    \/ Node
    \/ Connection
    \/ Probe
    \/ Simulator
    \/ RunStep
    \/ RunEnd
    \/ Plot

Spec == Init /\ [][Next]_vars

Done == raised = "none" /\ pc = Len(Cells(nb)) + 1

(* ------------------------------ claims --------------------------------- *)

Osc == nb = "controlled-oscillator"

Rep == nb = "2d-representation"

\* C1: for every input x = (x0, x1, w) the feedback callback returns
\* (x0 - w*w_max*tau*x1, x1 + w*w_max*tau*x0, 0), the feedback function the
\* notebook's markdown derives.
C1_FeedbackIsDocumented ==
    \A d \in decoded :
        d.function = "feedback" => VecEq(d.out, f_feedback(ToRat(d.in)))

\* The connections other than the one from the frequency ensemble that
\* reach dimension 2 of the oscillator.
IntoOmega ==
    {c \in conns : /\ c.post = "oscillator"
                   /\ c.pre # "frequency"
                   /\ \/ c.slice = <<>>
                      \/ \E k \in 1..Len(c.slice) : c.slice[k] = 2}

\* C2: the third component the feedback callback returns is 0 whatever
\* x0, x1 and w are, and every connection into dimension 2 of the oscillator
\* other than the one from the frequency ensemble delivers 0 there.
C2_FeedbackLeavesOmega ==
    /\ \A d \in decoded :
          d.function = "feedback" => Len(d.out) = 3 /\ REq(d.out[3], RInt(0))
    /\ \A c \in IntoOmega :
          \/ c.function = "feedback"
          \/ /\ objs[c.pre].output = "Piecewise"
             /\ \A i \in 1..Len(objs[c.pre].table) :
                   REq(objs[c.pre].table[i].y[3], RInt(0))

C2_Witness ==
    /\ Osc
    /\ Done
    /\ Cardinality(IntoOmega) = 2
    /\ \E d \in decoded :
          d.function = "feedback" /\ d.in[1] # 0 /\ d.in[2] # 0 /\ d.in[3] # 0

\* C3: running the code cells in file order, every name a statement reads
\* (the names a function it calls reads included) is bound when the
\* statement runs, so no cell raises a NameError, in both notebooks.
C3_NamesBoundBeforeRead ==
    /\ raised # "NameError"
    /\ pc \in 1..Len(Cells(nb)) =>
          cur.reads \cup BodyReads(cur.function) \subseteq bound

C3_Witness ==
    /\ Done
    /\ Osc
    /\ {"plt", "nengo", "Piecewise", "tau", "w_max", "model", "oscillator",
        "feedback", "frequency", "initial", "input_frequency",
        "oscillator_probe", "sim"} \subseteq bound

\* C4: the data oscillator_probe records has one row per entry of
\* sim.trange(), every row has exactly 3 values, and the legend of the plot
\* has 3 entries.
C4_OscillatorProbeShape ==
    (Osc /\ "oscillator_probe" \in DOMAIN data) =>
        /\ Len(data["oscillator_probe"]) = Len(trange)
        /\ \A i \in 1..Len(data["oscillator_probe"]) :
              data["oscillator_probe"][i] = 3
        /\ figure.legend \in {0, 3}
        /\ Done => figure.legend = 3

C4_Witness ==
    /\ Osc
    /\ Done
    /\ Len(data["oscillator_probe"]) = 5 * StepsPerSecond
    /\ "oscillator_probe" \in figure.series

\* C6: at every time t of the run the initial node outputs (1, 0, 0) when
\* t < 0.15 and (0, 0, 0) when t >= 0.15, and its third component is 0.
C6_InitialIsAQuickInput ==
    (Osc /\ sim.n >= 1) =>
        /\ RLt(T(sim.n), <<15, 100>>) =>
              VecEq(out["initial"], <<RInt(1), RInt(0), RInt(0)>>)
        /\ ~RLt(T(sim.n), <<15, 100>>) =>
              VecEq(out["initial"], <<RInt(0), RInt(0), RInt(0)>>)
        /\ REq(out["initial"][3], RInt(0))

C6_Witness ==
    /\ Osc
    /\ sim.n >= 1
    /\ REq(T(sim.n), <<15, 100>>)
    /\ VecEq(out["initial"], Zeros(3))

\* The value the frequency schedule is claimed to have at time t.
Commanded(t) ==
    IF RLt(t, RInt(1)) THEN <<1, 1>>
    ELSE IF RLt(t, RInt(2)) THEN <<1, 2>>
    ELSE IF RLt(t, RInt(3)) THEN <<0, 1>>
    ELSE IF RLt(t, RInt(4)) THEN <<-1, 2>>
    ELSE <<-1, 1>>

\* C7: at every time t of the run the input_frequency node outputs 1 on
\* [0,1), 0.5 on [1,2), 0 on [2,3), -0.5 on [3,4) and -1 from 4 on; the
\* value is never above an earlier one, lies in [-1, 1] (so w*w_max lies in
\* [-w_max, w_max]), and a breakpoint at or before t exists.
C7_FrequencySchedule ==
    (Osc /\ sim.n >= 1) =>
        LET w == out["input_frequency"][1]
            table == sim.objs["input_frequency"].table
        IN  /\ Len(out["input_frequency"]) = 1
            /\ REq(w, Commanded(T(sim.n)))
            /\ \A m \in 0..sim.n :
                  /\ KeysUpTo(table, T(m)) # {}
                  /\ RLeq(w, Piecewise(table, T(m))[1])
            /\ RLeq(RInt(-1), w) /\ RLeq(w, RInt(1))
            /\ RLeq(RInt(0 - w_max), RMul(w, RInt(w_max)))
            /\ RLeq(RMul(w, RInt(w_max)), RInt(w_max))

C7_Witness ==
    /\ Osc
    /\ sim.n = 5 * StepsPerSecond
    /\ REq(out["input_frequency"][1], RInt(-1))

\* C8: once the simulator is constructed nothing is added to the model;
\* every probe whose data is plotted was in the model when the simulator
\* was constructed; and nothing is plotted before run has returned.
C8_ModelCompleteBeforeSimulated ==
    /\ sim.built =>
          /\ objs = sim.objs
          /\ conns = sim.conns
          /\ probes = sim.probes
    /\ figure.series \subseteq DOMAIN sim.probes
    /\ figure.series # {} => sim.ran
    /\ raised # "KeyError"

C8_Witness ==
    /\ Rep
    /\ Done
    /\ sim.ran
    /\ figure.series = {"neurons_probe", "sin_probe", "cos_probe"}

\* C9: every connection delivers as many values as its target takes and
\* slices only dimensions its target has: in the controlled oscillator
\* 3 -> oscillator (feedback), 1 -> oscillator[2], 3 -> oscillator,
\* 1 -> frequency; in the 2D representation 1 -> neurons[0], 1 -> neurons[1].
C9_ConnectionsDimensionConsistent ==
    /\ raised # "ValidationError"
    /\ \A c \in conns :
          /\ c.size_mid = c.size_post
          /\ \A k \in 1..Len(c.slice) : c.slice[k] \in 0..(objs[c.post].size - 1)
    /\ (Done /\ Osc) =>
          {<<c.pre, c.function, c.size_mid, c.post, c.slice, objs[c.post].size>> :
              c \in conns} =
            { <<"oscillator", "feedback", 3, "oscillator", <<>>, 3>>,
              <<"frequency", "", 1, "oscillator", <<2>>, 3>>,
              <<"initial", "", 3, "oscillator", <<>>, 3>>,
              <<"input_frequency", "", 1, "frequency", <<>>, 1>> }
    /\ (Done /\ Rep) =>
          {<<c.pre, c.function, c.size_mid, c.post, c.slice, objs[c.post].size>> :
              c \in conns} =
            { <<"sin", "", 1, "neurons", <<0>>, 2>>,
              <<"cos", "", 1, "neurons", <<1>>, 2>> }

C9_Witness ==
    /\ Osc
    /\ Done
    /\ Cardinality(conns) = 4

====
